---------------------------- MODULE Spec2Model ----------------------------
(* Session store, API gateway interceptors and auth context of the          *)
(* endpoint-management dashboard (lib/api.ts, contexts/AuthContext, the     *)
(* login page and the protected-page wrapper), as one state machine.        *)
(* One action is one browser task: a user gesture, a mount effect, or the   *)
(* arrival of one HTTP response together with every promise continuation   *)
(* and React render that runs before the browser takes the next task.       *)
EXTENDS Integers, Sequences, FiniteSets, TLC

\* ------------------------------------------------------------------ bounds
\* distinct access tokens the backend may issue
MaxTok == 2
\* requests one page load may issue before it is reloaded
MaxReq == 3
\* rows of the list a table is given
MaxRows == 2
\* distinct values of a table cell
MaxKey == 2
\* user-list requests of one visit of the Users page
MaxFetches == 3
\* createTask requests of one visit of the Tasks page
MaxCreates == 2
\* task-list requests of one visit of the Tasks page
MaxLoads == 2
\* client-list requests of one visit of the Clients page
MaxClientLoads == 3

\* ------------------------------------------------------------ value spaces
NoToken == 0
Tokens == 1..MaxTok
NoUser == "null"
Roles == {"admin", "technician", "auditor"}
Routes == {"login", "dashboard"}
Kinds == {"validate", "me", "refresh", "login", "logout", "data"}

NoAuth == [scheme |-> "none", cred |-> NoToken]
Bearer(t) == [scheme |-> "Bearer", cred |-> t]

\* error responses: a 401 or another HTTP error (with or without a detail in
\* the body), or a failure without a response (network error, timeout)
Errors ==
    { [status |-> s, detail |-> d, msg |-> "Request failed"] :
          s \in {"401", "err"}, d \in {"", "Invalid credentials"} }
    \cup { [status |-> "net", detail |-> "", msg |-> m] : m \in {"", "Network Error"} }

OkResponse(t, u) == [status |-> "ok", tok |-> t, usr |-> u, detail |-> "", msg |-> ""]
ErrResponse(e) ==
    [status |-> e.status, tok |-> NoToken, usr |-> NoUser, detail |-> e.detail, msg |-> e.msg]

VARIABLES
    token,            \* ApiClient.token (memory)
    cookie,           \* the access_token cookie
    user,             \* AuthProvider state: user
    loading,          \* AuthProvider state: loading
    isAuthenticated,  \* the isAuthenticated field of the context value last rendered
    route,            \* the page the router shows
    mounted,          \* whether AuthProvider's mount effect has run
    inflight,         \* requests sent and not yet answered
    issued,           \* requests issued since the page was loaded
    hrefs,            \* assignments window.location.href = '/login' since the
                      \* session was last established or the page loaded
    navPending,       \* a document navigation to /login has been requested
    toasts,           \* notifications emitted by the last task
    last,             \* the operation the last task ran, and its outcome
    table,            \* a DataTable: its data prop, its sort state, the header last clicked
    audit,            \* the audit-log filters, the list query, the export the last gesture made
    usersPg,          \* the Users page: its filters, its requests, its last notification
    tasksPg,          \* the Tasks page: its form, its modal, its requests
    clientsPg,        \* the Clients page: its filters, intervals, requests, modal
    perms             \* what usePermissions answered to the last component that asked

vars == <<token, cookie, user, loading, isAuthenticated, route, mounted,
          inflight, issued, hrefs, navPending, toasts, last, table, audit,
          usersPg, tasksPg, clientsPg, perms>>

\* the state of the auth context and of the gateway
authVars == <<token, cookie, user, loading, isAuthenticated, route, mounted,
              inflight, issued, hrefs, navPending, toasts, last>>

\* the state of the pages
pageVars == <<table, audit, usersPg, tasksPg, clientsPg, perms>>

\* no response: the task was a gesture or an effect
NoResponse == [status |-> "none", tok |-> NoToken, usr |-> NoUser, detail |-> "", msg |-> ""]

\* whether the gateway call rejects to its caller: the response interceptor
\* passes a response on and ends its error handler with Promise.reject(error)
GatewayRejects(resp) == resp.status # "ok"

\* the task just run: the operation, the response it handled (if any),
\* whether the gateway call rejected to the operation and whether the
\* operation's promise rejected to its caller
Event(op, resp, thrown) ==
    [op |-> op, status |-> resp.status, tok |-> resp.tok, usr |-> resp.usr,
     detail |-> resp.detail, msg |-> resp.msg,
     rejected |-> (resp.status # "none" /\ GatewayRejects(resp)),
     thrown |-> thrown]


\* ------------------------------------------------------------------- pages
\* DataTable: no column is sorted at first (sortColumn is null)
NoColumn == "null"

\* the columns of a table: key and sortable flag
Columns == { [key |-> "a", sortable |-> TRUE], [key |-> "b", sortable |-> TRUE],
             [key |-> "c", sortable |-> FALSE] }

Rows == [a : 1..MaxKey, b : 1..MaxKey, c : {1}]

TableData == UNION { [1..n -> Rows] : n \in 0..MaxRows }

\* DataTable's state when it mounts: useState(null), useState('asc')
TableMounted(data) ==
    [data |-> data, sortColumn |-> NoColumn, sortDirection |-> "asc", clicked |-> NoColumn]

\* a filter the audit page has not set
Undefined == "#undefined"

\* the filters of getAuditLogs and exportAuditLogs
FilterKeys == {"action", "severity", "start_date", "end_date", "search"}

FilterValues == {Undefined, "", "x"}

\* the audit page before any request is made
AuditMounted(filters) == [filters |-> filters, list |-> {}, exported |-> FALSE, query |-> {}]

NoFilters == [k \in FilterKeys |-> Undefined]

\* the values typed into a text input or chosen in a select
Inputs == {"", "x", " "}

\* the Users page before it is shown, and its state as it mounts
UsersMounted(m) ==
    [mounted |-> m, searchTerm |-> "", selectedRole |-> "", loading |-> TRUE,
     users |-> "none", fetches |-> 0, pending |-> 0, toast |-> ""]

\* the fields of the task form that are registered as required and start empty
RequiredFields == {"name", "client_id", "command"}

\* handleCreateTask's reset: name '', command '', and client_id 0, which
\* selects the empty option
EmptyForm == [f \in RequiredFields |-> ""]

\* the Tasks page before it is shown, and its state as it mounts
TasksMounted(m) ==
    [mounted |-> m, showModal |-> FALSE, form |-> EmptyForm, errors |-> {},
     isSubmitted |-> FALSE, creates |-> 0, creating |-> 0, loads |-> 0,
     loadingTasks |-> 0, tasks |-> 0, stored |-> 0, toast |-> "", gesture |-> "none"]

\* the status filter of the Clients page
StatusFilters == {"", "online"}

\* the Clients page before it is shown, and its state as it mounts
ClientsMounted(m) ==
    [mounted |-> m, searchTerm |-> "", statusFilter |-> "", loading |-> TRUE,
     effects |-> 0, intervals |-> {}, fetches |-> 0, pending |-> {},
     shown |-> 0, showModal |-> FALSE, location |-> "", updating |-> 0,
     toast |-> "", gesture |-> "none"]

\* role values the backend may send that are no role of the application
OtherRoles == {"guest", "Admin", ""}

\* usePermissions before any component has called its functions
NotAsked ==
    [asked |-> FALSE, role |-> "", roles |-> {}, hasRole |-> FALSE, hasAnyRole |-> FALSE,
     canManageUsers |-> FALSE, canManageClients |-> FALSE, canExecuteTasks |-> FALSE,
     canViewAuditLogs |-> FALSE, canExportData |-> FALSE]

\* the pages as a document load leaves them
PagesLoaded ==
    /\ table = TableMounted(<<>>)
    /\ audit = AuditMounted(NoFilters)
    /\ usersPg = UsersMounted(FALSE)
    /\ tasksPg = TasksMounted(FALSE)
    /\ clientsPg = ClientsMounted(FALSE)
    /\ perms = NotAsked

\* ------------------------------------------------------------ session store
\* faulty variant of the startup read: the cookie is ignored
LoadTokenNone(c) == NoToken

\* ApiClient.loadToken: Cookies.get('access_token') || null
LoadToken(c) == c

\* faulty variant of saveToken: the cookie is not written
SaveTokenMemoryOnly(t) == [mem |-> t, ck |-> NoToken]

\* ApiClient.saveToken
SaveToken(t) == [mem |-> t, ck |-> t]

\* faulty variant of clearToken: the cookie is not removed
ClearTokenMemoryOnly == [mem |-> NoToken, ck |-> cookie]

\* ApiClient.clearToken
ClearToken == [mem |-> NoToken, ck |-> NoToken]

\* ApiClient.isAuthenticated: !!this.token
HasToken(t) == t # NoToken

\* -------------------------------------------------------------- API gateway
\* faulty variant of the request interceptor: the header is always set
RequestInterceptorAlways(t) == Bearer(t)

\* request interceptor: Authorization is set only when a token is held
RequestInterceptor(t) == IF HasToken(t) THEN Bearer(t) ELSE NoAuth

\* faulty variant of the message: the response's detail is not looked at
ErrorMessageWithoutDetail(resp) == IF resp.msg # "" THEN resp.msg ELSE "An error occurred"

\* error.response?.data?.detail || error.message || 'An error occurred'
ErrorMessage(resp) ==
    IF resp.detail # "" THEN resp.detail
    ELSE IF resp.msg # "" THEN resp.msg
    ELSE "An error occurred"

ErrorToast(text) == [type |-> "error", text |-> text]
SuccessToast(text) == [type |-> "success", text |-> text]

\* the session after the response interceptor has seen the response
InterceptedSession(resp, sess) == IF resp.status = "401" THEN ClearToken ELSE sess

\* how often the response interceptor assigns window.location.href
InterceptedNavigations(resp) == IF resp.status = "401" THEN 1 ELSE 0

\* response interceptor: what it leaves behind for one response
ResponseInterceptor(resp, sess) ==
    IF resp.status = "ok"
    THEN [sess |-> sess, nav |-> 0, toasts |-> <<>>, rejects |-> GatewayRejects(resp)]
    ELSE [sess |-> InterceptedSession(resp, sess),
          nav |-> InterceptedNavigations(resp),
          toasts |-> <<ErrorToast(ErrorMessage(resp))>>,
          rejects |-> GatewayRejects(resp)]

\* the answers the backend can give to a request: login answers with a token
\* and a user record, /auth/me with a user record; a request that carries no
\* Authorization header is never accepted by a resource endpoint
Responses(r) ==
    { ErrResponse(e) : e \in Errors }
    \cup ( CASE r.kind = "login" -> { OkResponse(t, u) : t \in Tokens, u \in Roles }
             [] r.kind = "logout" -> { OkResponse(NoToken, NoUser) }
             [] r.kind \in {"me", "refresh"} /\ r.auth # NoAuth ->
                    { OkResponse(NoToken, u) : u \in Roles }
             [] r.kind \in {"validate", "data"} /\ r.auth # NoAuth ->
                    { OkResponse(NoToken, NoUser) }
             [] OTHER -> {} )

\* a request as it leaves the client
NewRequest(kind) == [id |-> issued + 1, kind |-> kind, auth |-> RequestInterceptor(token)]

Pending(kind) == \E r \in inflight : r.kind = kind

\* requests the running startup check may still have to issue
Reserved == IF Pending("validate") THEN 1 ELSE 0

CanIssue == mounted /\ issued + Reserved < MaxReq

\* ------------------------------------------------------------- auth context
\* AuthProvider value: isAuthenticated: !!user && apiClient.isAuthenticated()
AuthValue(u, t) == u # NoUser /\ HasToken(t)

\* what the protected-page wrapper renders: a spinner while loading, nothing
\* without a user, the wrapped page otherwise
WithAuthRender(u, l) == IF l THEN "loading" ELSE IF u = NoUser THEN "nothing" ELSE "page"

\* usePermissions.hasRole: user?.role === role
HasRole(u, role) == u = role

\* usePermissions.hasAnyRole: roles.includes(user?.role || '')
HasAnyRole(u, roles) == (IF u = NoUser THEN "" ELSE u) \in roles

\* faulty variant: every signed-in role may manage users
CanManageUsersAnyRole(u) == HasAnyRole(u, Roles)

CanManageUsers(u) == HasRole(u, "admin")
CanManageClients(u) == HasAnyRole(u, {"admin", "technician"})
CanExecuteTasks(u) == HasAnyRole(u, {"admin", "technician"})
CanViewAuditLogs(u) == HasAnyRole(u, {"admin", "auditor"})

\* faulty variant: a deny list instead of an allow list
CanExportDataDenyList(u) == ~HasAnyRole(u, {"technician"})

CanExportData(u) == HasAnyRole(u, {"admin", "auditor"})

\* the login page's effect: it leaves for the dashboard when isAuthenticated
LoginPageEffect(rt, a) == IF rt = "login" /\ a THEN "dashboard" ELSE rt

\* the protected-page wrapper's effect: it leaves for the login page when the
\* check is over and no user is held
WithAuthEffect(rt, u, l) == IF rt = "dashboard" /\ ~l /\ u = NoUser THEN "login" ELSE rt

\* the effects that run after a render, for the page the router shows
AfterEffects(rt, u, l, a) ==
    IF rt = "login" THEN LoginPageEffect(rt, a) ELSE WithAuthEffect(rt, u, l)

\* the end of a task: the writes it made, then the render React runs when
\* the provider's state or the route changed, then the effects of that render
Commit(sess, u, l, rt, reqs, n, nav, ts, ev) ==
    LET changed == u # user \/ l # loading \/ rt # route
        a == IF changed THEN AuthValue(u, sess.mem) ELSE isAuthenticated
    IN  /\ token' = sess.mem
        /\ cookie' = sess.ck
        /\ user' = u
        /\ loading' = l
        /\ isAuthenticated' = a
        /\ route' = IF changed THEN AfterEffects(rt, u, l, a) ELSE rt
        /\ inflight' = reqs
        /\ issued' = n
        /\ hrefs' = nav
        /\ navPending' = (navPending \/ nav > hrefs)
        /\ toasts' = ts
        /\ last' = ev
        /\ UNCHANGED pageVars

Session == [mem |-> token, ck |-> cookie]

\* a document load: module state is rebuilt, the token is read from the cookie
PageLoad(rt) ==
    /\ token' = LoadToken(cookie)
    /\ cookie' = cookie
    /\ user' = NoUser
    /\ loading' = TRUE
    /\ isAuthenticated' = FALSE
    /\ route' = rt
    /\ mounted' = FALSE
    /\ inflight' = {}
    /\ issued' = 0
    /\ hrefs' = 0
    /\ navPending' = FALSE
    /\ toasts' = <<>>
    /\ last' = Event("load", NoResponse, FALSE)
    /\ table' = TableMounted(<<>>)
    /\ audit' = AuditMounted(NoFilters)
    /\ usersPg' = UsersMounted(FALSE)
    /\ tasksPg' = TasksMounted(FALSE)
    /\ clientsPg' = ClientsMounted(FALSE)
    /\ perms' = NotAsked

Init ==
    /\ cookie \in Tokens \cup {NoToken}
    /\ token = LoadToken(cookie)
    /\ user = NoUser
    /\ loading = TRUE
    /\ isAuthenticated = FALSE
    /\ route \in Routes
    /\ mounted = FALSE
    /\ inflight = {}
    /\ issued = 0
    /\ hrefs = 0
    /\ navPending = FALSE
    /\ toasts = <<>>
    /\ last = Event("load", NoResponse, FALSE)
    /\ PagesLoaded

\* AuthProvider mount effect: checkAuth up to its first await
\* faulty variant of checkAuth's last step: loading is reset on the path
\* that found a user only
LoadingAfterCheckOnSuccess(u) == u = NoUser

\* checkAuth's finally block: setLoading(false) on every path
LoadingAfterCheck(u) == FALSE

CheckAuth ==
    /\ ~mounted
    /\ mounted' = TRUE
    /\ IF HasToken(token)
       THEN Commit(Session, user, loading, route, inflight \cup {NewRequest("validate")},
                   issued + 1, hrefs, <<>>,
                   Event("checkAuth", NoResponse, FALSE))
       ELSE Commit(Session, NoUser, LoadingAfterCheck(NoUser), route, inflight, issued,
                   hrefs, <<>>, Event("checkAuth", NoResponse, FALSE))


\* checkAuth after `await apiClient.validateToken()`: validateToken turns any
\* failure into false; a valid token goes on to getCurrentUser
ValidateResponse(r, resp) ==
    /\ r \in inflight /\ r.kind = "validate" /\ resp \in Responses(r)
    /\ mounted' = mounted
    /\ LET ic == ResponseInterceptor(resp, Session)
           ev == Event("validate", resp, FALSE)
       IN  IF ~ic.rejects
           THEN Commit(ic.sess, user, loading, route,
                       (inflight \ {r}) \cup {NewRequest("me")}, issued + 1,
                       hrefs + ic.nav, ic.toasts, ev)
           ELSE Commit(ic.sess, NoUser, LoadingAfterCheck(NoUser), route, inflight \ {r},
                       issued, hrefs + ic.nav, ic.toasts, ev)

\* checkAuth after `await apiClient.getCurrentUser()`
MeResponse(r, resp) ==
    /\ r \in inflight /\ r.kind = "me" /\ resp \in Responses(r)
    /\ mounted' = mounted
    /\ LET ic == ResponseInterceptor(resp, Session)
           ev == Event("me", resp, FALSE)
           u == IF ~ic.rejects THEN resp.usr ELSE NoUser
       IN  Commit(ic.sess, u, LoadingAfterCheck(u), route, inflight \ {r}, issued,
                  hrefs + ic.nav, ic.toasts, ev)

\* faulty variant of login's catch block: the error is swallowed
LoginSwallows == FALSE

\* what AuthProvider.login's catch block does with the error: it rethrows
LoginRethrows == TRUE

\* where AuthProvider.login sends the router after a successful login
LoginRedirect == "dashboard"

\* faulty variant of login: the returned user record is not stored
LoggedInUserDropped(resp) == NoUser

\* the user record AuthProvider.login stores: setUser(response.user)
LoggedInUser(resp) == resp.usr

\* the toast of AuthProvider.login's catch block
LoginFailedToast(resp) ==
    ErrorToast(IF resp.detail # "" THEN resp.detail ELSE "Login failed")

\* Login.onSubmit -> AuthProvider.login up to `await apiClient.login()`; the
\* submit button is disabled while a login is outstanding
StartLogin ==
    /\ CanIssue /\ route = "login" /\ ~Pending("login")
    /\ mounted' = mounted
    /\ Commit(Session, user, TRUE, route, inflight \cup {NewRequest("login")},
              issued + 1, hrefs, <<>>,
              Event("startLogin", NoResponse, FALSE))

\* ApiClient.login and AuthProvider.login after the response
LoginResponse(r, resp) ==
    /\ r \in inflight /\ r.kind = "login" /\ resp \in Responses(r)
    /\ mounted' = mounted
    /\ LET ic == ResponseInterceptor(resp, Session)
       IN  IF ~ic.rejects
           THEN Commit(SaveToken(resp.tok), LoggedInUser(resp), FALSE, LoginRedirect,
                       inflight \ {r}, issued, 0,
                       <<SuccessToast("Welcome back")>>,
                       Event("login", resp, FALSE))
           ELSE Commit(ic.sess, user, FALSE, route, inflight \ {r}, issued,
                       hrefs + ic.nav, ic.toasts \o <<LoginFailedToast(resp)>>,
                       Event("login", resp, LoginRethrows))

\* Layout's sign-out button -> AuthProvider.logout up to `await`; the layout
\* is rendered only inside a protected page
StartLogout ==
    /\ CanIssue /\ route = "dashboard" /\ ~loading /\ user # NoUser
    /\ mounted' = mounted
    /\ Commit(Session, user, loading, route, inflight \cup {NewRequest("logout")},
              issued + 1, hrefs, <<>>,
              Event("startLogout", NoResponse, FALSE))

\* faulty variant of ApiClient.logout: the token is cleared after the await
\* instead of in a finally block
LogoutSessionOnSuccess(resp, sess) == IF resp.status = "ok" THEN ClearToken ELSE sess

\* the session ApiClient.logout leaves: its finally block clears the token
\* whether the call succeeded or failed
LogoutSession(resp, sess) == ClearToken

\* ApiClient.logout's finally and AuthProvider.logout's catch and finally
LogoutResponse(r, resp) ==
    /\ r \in inflight /\ r.kind = "logout" /\ resp \in Responses(r)
    /\ mounted' = mounted
    /\ LET ic == ResponseInterceptor(resp, Session)
       IN  Commit(LogoutSession(resp, ic.sess), NoUser, loading, "login", inflight \ {r},
                  issued, hrefs + ic.nav,
                  ic.toasts \o <<SuccessToast("Logged out successfully")>>,
                  Event("logout", resp, FALSE))

\* AuthProvider.refreshUser up to `await`; without a token it does nothing
StartRefresh ==
    /\ mounted
    /\ mounted' = mounted
    /\ IF HasToken(token)
       THEN /\ CanIssue
            /\ Commit(Session, user, loading, route,
                      inflight \cup {NewRequest("refresh")}, issued + 1, hrefs, <<>>,
                      Event("startRefresh", NoResponse, FALSE))
       ELSE Commit(Session, user, loading, route, inflight, issued, hrefs, <<>>,
                   Event("refreshSkipped", NoResponse, FALSE))

\* AuthProvider.refreshUser after `await apiClient.getCurrentUser()`
RefreshResponse(r, resp) ==
    /\ r \in inflight /\ r.kind = "refresh" /\ resp \in Responses(r)
    /\ mounted' = mounted
    /\ LET ic == ResponseInterceptor(resp, Session)
       IN  Commit(ic.sess, IF ~ic.rejects THEN resp.usr ELSE NoUser, loading,
                  route, inflight \ {r}, issued, hrefs + ic.nav, ic.toasts,
                  Event("refresh", resp, FALSE))

\* one backend call of a protected page (first load or a polling tick)
StartData ==
    /\ CanIssue /\ route = "dashboard" /\ ~loading /\ user # NoUser
    /\ mounted' = mounted
    /\ Commit(Session, user, loading, route, inflight \cup {NewRequest("data")},
              issued + 1, hrefs, <<>>,
              Event("startData", NoResponse, FALSE))

\* the page's own handler logs the error; the interceptor has done the rest
DataResponse(r, resp) ==
    /\ r \in inflight /\ r.kind = "data" /\ resp \in Responses(r)
    /\ mounted' = mounted
    /\ LET ic == ResponseInterceptor(resp, Session)
       IN  Commit(ic.sess, user, loading, route, inflight \ {r}, issued,
                  hrefs + ic.nav, ic.toasts,
                  Event("data", resp, FALSE))

\* the document navigation requested by window.location.href = '/login'
HardNavigate == navPending /\ PageLoad("login")

\* the user reloads the page or opens another URL of the application
Reload == \E rt \in Routes : PageLoad(rt)

AllResponses == UNION { Responses(r) : r \in inflight }

Next ==
    \/ CheckAuth
    \/ StartLogin
    \/ StartLogout
    \/ StartRefresh
    \/ StartData
    \/ \E r \in inflight, resp \in AllResponses : ValidateResponse(r, resp)
    \/ \E r \in inflight, resp \in AllResponses : MeResponse(r, resp)
    \/ \E r \in inflight, resp \in AllResponses : LoginResponse(r, resp)
    \/ \E r \in inflight, resp \in AllResponses : LogoutResponse(r, resp)
    \/ \E r \in inflight, resp \in AllResponses : RefreshResponse(r, resp)
    \/ \E r \in inflight, resp \in AllResponses : DataResponse(r, resp)
    \/ HardNavigate
    \/ Reload

Spec == Init /\ [][Next]_vars


\* the operations of the auth context alone: startup without a stored
\* session, then logins and logouts
InitLL == Init /\ cookie = NoToken

NextLL ==
    \/ CheckAuth
    \/ StartLogin
    \/ \E r \in inflight, resp \in AllResponses : LoginResponse(r, resp)
    \/ StartLogout
    \/ \E r \in inflight, resp \in AllResponses : LogoutResponse(r, resp)

SpecLL == InitLL /\ [][NextLL]_vars

\* ------------------------------------------------------------------ startup
\* one page load and what follows it without the user reloading the page
NextStartup ==
    \/ CheckAuth
    \/ StartLogin
    \/ StartLogout
    \/ StartRefresh
    \/ StartData
    \/ \E r \in inflight, resp \in AllResponses : ValidateResponse(r, resp)
    \/ \E r \in inflight, resp \in AllResponses : MeResponse(r, resp)
    \/ \E r \in inflight, resp \in AllResponses : LoginResponse(r, resp)
    \/ \E r \in inflight, resp \in AllResponses : LogoutResponse(r, resp)
    \/ \E r \in inflight, resp \in AllResponses : RefreshResponse(r, resp)
    \/ \E r \in inflight, resp \in AllResponses : DataResponse(r, resp)
    \/ HardNavigate

\* the mount effect runs, every request is answered, and a requested
\* navigation takes place
Fairness ==
    /\ WF_vars(CheckAuth)
    /\ WF_vars(\E r \in inflight, resp \in AllResponses : ValidateResponse(r, resp))
    /\ WF_vars(\E r \in inflight, resp \in AllResponses : MeResponse(r, resp))
    /\ WF_vars(\E r \in inflight, resp \in AllResponses : LoginResponse(r, resp))
    /\ WF_vars(\E r \in inflight, resp \in AllResponses : LogoutResponse(r, resp))
    /\ WF_vars(\E r \in inflight, resp \in AllResponses : RefreshResponse(r, resp))
    /\ WF_vars(\E r \in inflight, resp \in AllResponses : DataResponse(r, resp))
    /\ WF_vars(HardNavigate)

SpecStartup == Init /\ [][NextStartup]_vars /\ Fairness

\* ------------------------------------------------------------ signed in
\* the state a successful login leaves, from which the pages are used
SignedIn(t, u) ==
    /\ token = t /\ cookie = t /\ user = u
    /\ loading = FALSE /\ isAuthenticated = TRUE /\ route = "dashboard"
    /\ mounted = TRUE /\ inflight = {} /\ issued = 1
    /\ hrefs = 0 /\ navPending = FALSE
    /\ toasts = <<SuccessToast("Welcome back")>>
    /\ last = Event("login", OkResponse(t, u), FALSE)

\* ---------------------------------------------------------------- DataTable
\* the comparator of sortedData
Compare(x, y, col, dir) ==
    IF x[col] = y[col] THEN 0
    ELSE LET comparison == IF x[col] > y[col] THEN 1 ELSE -1
         IN  IF dir = "desc" THEN comparison * (-1) ELSE comparison

\* Array.prototype.sort is stable: an element goes behind the last element
\* that does not compare greater
RECURSIVE InsertSorted(_, _, _, _)
InsertSorted(x, s, col, dir) ==
    IF s = <<>> THEN <<x>>
    ELSE IF Compare(s[Len(s)], x, col, dir) <= 0 THEN Append(s, x)
    ELSE Append(InsertSorted(x, SubSeq(s, 1, Len(s) - 1), col, dir), s[Len(s)])

RECURSIVE SortBy(_, _, _)
SortBy(s, col, dir) ==
    IF s = <<>> THEN <<>>
    ELSE InsertSorted(s[Len(s)], SortBy(SubSeq(s, 1, Len(s) - 1), col, dir), col, dir)

\* DataTable.sortedData
SortedData(t) ==
    IF t.sortColumn = NoColumn THEN t.data ELSE SortBy(t.data, t.sortColumn, t.sortDirection)

\* faulty variant of the toggle: a repeated click sorts descending for good
NextDirectionSticky(d) == "desc"

\* the direction a repeated click on the sorted column gives
NextDirection(d) == IF d = "asc" THEN "desc" ELSE "asc"

\* DataTable.handleSort: a click on a column header
HandleSort(column) ==
    /\ column \in Columns
    /\ table' =
          IF ~column.sortable THEN [table EXCEPT !.clicked = column.key]
          ELSE IF table.sortColumn = column.key
          THEN [table EXCEPT !.sortDirection = NextDirection(table.sortDirection),
                             !.clicked = column.key]
          ELSE [table EXCEPT !.sortColumn = column.key, !.sortDirection = "asc",
                             !.clicked = column.key]
    /\ UNCHANGED <<authVars, audit, usersPg, tasksPg, clientsPg, perms>>

\* a table on a page of a signed-in user, given any list
InitTable ==
    /\ \E t \in Tokens, u \in Roles : SignedIn(t, u)
    /\ table \in { TableMounted(d) : d \in TableData }
    /\ audit = AuditMounted(NoFilters)
    /\ usersPg = UsersMounted(FALSE)
    /\ tasksPg = TasksMounted(FALSE)
    /\ clientsPg = ClientsMounted(FALSE)
    /\ perms = NotAsked

NextTable == \E column \in Columns : HandleSort(column)

SpecTable == InitTable /\ [][NextTable]_vars

\* --------------------------------------------------------------- audit logs
\* if (value): undefined and the empty string are skipped
Truthy(value) == value # Undefined /\ value # ""

\* the entries appended for the filters
FilterParams(filters) ==
    { <<key, filters[key]>> : key \in { k \in DOMAIN filters : Truthy(filters[k]) } }

\* ApiClient.getAuditLogs: the query of the list request
AuditLogsParams(page, perPage, filters) ==
    { <<"page", page>>, <<"per_page", perPage>> } \cup FilterParams(filters)

\* faulty variant of the export: the query is built as the list request's
ExportParamsPaged(filters) == AuditLogsParams("1", "100", filters)

\* ApiClient.exportAuditLogs: the query of the export request
ExportParams(filters) == FilterParams(filters)

\* the audit page: a filter control is changed
SetFilter(key, value) ==
    /\ audit.filters[key] # value
    /\ audit' = [audit EXCEPT !.filters[key] = value, !.exported = FALSE, !.query = {}]
    /\ UNCHANGED <<authVars, table, usersPg, tasksPg, clientsPg, perms>>

\* the audit page loads the list with its filters (page 1, 100 per page)
LoadAuditLogs ==
    /\ audit' = [audit EXCEPT !.list = AuditLogsParams("1", "100", audit.filters),
                              !.exported = FALSE, !.query = {}]
    /\ UNCHANGED <<authVars, table, usersPg, tasksPg, clientsPg, perms>>

\* the audit page: the export button passes the page's filters
ExportAuditLogs ==
    /\ audit' = [audit EXCEPT !.exported = TRUE, !.query = ExportParams(audit.filters)]
    /\ UNCHANGED <<authVars, table, usersPg, tasksPg, clientsPg, perms>>

InitAudit ==
    /\ \E t \in Tokens, u \in Roles : SignedIn(t, u)
    /\ PagesLoaded

NextAudit ==
    \/ \E key \in FilterKeys, value \in FilterValues : SetFilter(key, value)
    \/ LoadAuditLogs
    \/ ExportAuditLogs

SpecAudit == InitAudit /\ [][NextAudit]_vars

\* --------------------------------------------------------------- Users page
\* what Users renders: the access-denied state or the page
UsersRender(u) == IF ~CanManageUsers(u) THEN "denied" ELSE "page"

AccessDeniedToast == ErrorToast("Access denied: Admin privileges required")

\* Users useEffect: runs on mount and when page, searchTerm or selectedRole change
UsersEffect(pg) ==
    IF ~CanManageUsers(user)
    THEN [pg EXCEPT !.toast = AccessDeniedToast.text]
    ELSE [pg EXCEPT !.loading = TRUE, !.fetches = pg.fetches + 1,
                    !.pending = pg.pending + 1, !.toast = ""]

\* the Users page is opened from the sidebar
UsersMount ==
    /\ ~usersPg.mounted /\ WithAuthRender(user, loading) = "page"
    /\ usersPg' = UsersEffect(UsersMounted(TRUE))
    /\ UNCHANGED <<authVars, table, audit, tasksPg, clientsPg, perms>>

\* the search box, rendered by the page only
SetSearchTerm(value) ==
    /\ usersPg.mounted /\ UsersRender(user) = "page"
    /\ usersPg.searchTerm # value /\ usersPg.fetches < MaxFetches
    /\ usersPg' = UsersEffect([usersPg EXCEPT !.searchTerm = value])
    /\ UNCHANGED <<authVars, table, audit, tasksPg, clientsPg, perms>>

\* the role select, rendered by the page only
SetSelectedRole(value) ==
    /\ usersPg.mounted /\ UsersRender(user) = "page"
    /\ usersPg.selectedRole # value /\ usersPg.fetches < MaxFetches
    /\ usersPg' = UsersEffect([usersPg EXCEPT !.selectedRole = value])
    /\ UNCHANGED <<authVars, table, audit, tasksPg, clientsPg, perms>>

\* loadUsers after getUsers has settled; a failure that leaves the session
\* alone (a 401 is DataResponse)
LoadUsersSettled(ok) ==
    /\ usersPg.mounted /\ usersPg.pending > 0
    /\ usersPg' = [usersPg EXCEPT !.pending = usersPg.pending - 1,
                                  !.loading = FALSE,
                                  !.users = IF ok THEN "loaded" ELSE usersPg.users,
                                  !.toast = IF ok THEN "" ELSE "Failed to load users"]
    /\ UNCHANGED <<authVars, table, audit, tasksPg, clientsPg, perms>>

\* another page is opened: Users unmounts
UsersUnmount ==
    /\ usersPg.mounted
    /\ usersPg' = UsersMounted(FALSE)
    /\ UNCHANGED <<authVars, table, audit, tasksPg, clientsPg, perms>>

InitUsers ==
    /\ \E t \in Tokens, u \in Roles : SignedIn(t, u)
    /\ PagesLoaded

NextUsers ==
    \/ UsersMount
    \/ \E value \in Inputs : SetSearchTerm(value)
    \/ \E value \in Inputs : SetSelectedRole(value)
    \/ \E ok \in BOOLEAN : LoadUsersSettled(ok)
    \/ UsersUnmount

SpecUsers == InitUsers /\ [][NextUsers]_vars

\* --------------------------------------------------------------- Tasks page
\* faulty variant of the validation: nothing is required
RequiredAcceptsEmpty(value) == TRUE

\* react-hook-form's required rule: the empty string fails, anything else passes
Required(value) == value # ""

\* the fields that fail validation
FormErrors(form) == { f \in RequiredFields : ~Required(form[f]) }

\* loadTasks is called: one more getTasks request
LoadTasks(pg) ==
    [pg EXCEPT !.loads = pg.loads + 1, !.loadingTasks = pg.loadingTasks + 1]

\* Tasks useEffect on mount
TasksMount ==
    /\ ~tasksPg.mounted /\ WithAuthRender(user, loading) = "page"
    /\ tasksPg' =
          IF ~CanExecuteTasks(user)
          THEN [TasksMounted(TRUE) EXCEPT
                    !.toast = "Access denied: Task execution privileges required",
                    !.gesture = "mount"]
          ELSE [LoadTasks(TasksMounted(TRUE)) EXCEPT !.gesture = "mount"]
    /\ UNCHANGED <<authVars, table, audit, usersPg, clientsPg, perms>>

\* the 15 s interval calls loadTasks
TasksTick ==
    /\ tasksPg.mounted /\ CanExecuteTasks(user) /\ tasksPg.loads < MaxLoads
    /\ tasksPg' = [LoadTasks(tasksPg) EXCEPT !.gesture = "tick", !.toast = ""]
    /\ UNCHANGED <<authVars, table, audit, usersPg, clientsPg, perms>>

\* loadTasks after getTasks has settled (a 401 is DataResponse)
LoadTasksSettled(ok) ==
    /\ tasksPg.mounted /\ tasksPg.loadingTasks > 0
    /\ tasksPg' = [tasksPg EXCEPT !.loadingTasks = tasksPg.loadingTasks - 1,
                                  !.tasks = IF ok THEN tasksPg.stored ELSE tasksPg.tasks,
                                  !.toast = IF ok THEN "" ELSE "Failed to load tasks",
                                  !.gesture = "loaded"]
    /\ UNCHANGED <<authVars, table, audit, usersPg, clientsPg, perms>>

\* Tasks.handleCreateTask: the form is reset and the modal opens
HandleCreateTask ==
    /\ tasksPg.mounted /\ CanExecuteTasks(user) /\ ~tasksPg.showModal
    /\ tasksPg' = [tasksPg EXCEPT !.form = EmptyForm, !.errors = {},
                                  !.isSubmitted = FALSE, !.showModal = TRUE,
                                  !.toast = "", !.gesture = "open"]
    /\ UNCHANGED <<authVars, table, audit, usersPg, clientsPg, perms>>

\* the user edits a field; after a submit the field is validated again
EditField(field, value) ==
    /\ tasksPg.showModal /\ tasksPg.form[field] # value
    /\ LET form == [tasksPg.form EXCEPT ![field] = value]
       IN  tasksPg' = [tasksPg EXCEPT
                !.form = form,
                !.errors = IF tasksPg.isSubmitted
                           THEN (tasksPg.errors \ {field}) \cup (FormErrors(form) \cap {field})
                           ELSE tasksPg.errors,
                !.toast = "", !.gesture = "edit"]
    /\ UNCHANGED <<authVars, table, audit, usersPg, clientsPg, perms>>

\* the form is submitted: handleSubmit validates, and calls onSubmit only
\* when no field fails; onSubmit starts with the createTask request
SubmitTask ==
    /\ tasksPg.showModal
    /\ LET errs == FormErrors(tasksPg.form)
           send == errs = {}
       IN  /\ send => tasksPg.creates < MaxCreates
           /\ tasksPg' = [tasksPg EXCEPT
                !.errors = errs, !.isSubmitted = TRUE,
                !.creates = IF send THEN tasksPg.creates + 1 ELSE tasksPg.creates,
                !.creating = IF send THEN tasksPg.creating + 1 ELSE tasksPg.creating,
                !.toast = "", !.gesture = "submit"]
    /\ UNCHANGED <<authVars, table, audit, usersPg, clientsPg, perms>>

\* Tasks.onSubmit after createTask has settled
CreateTaskSettled(ok) ==
    /\ tasksPg.mounted /\ tasksPg.creating > 0
    /\ tasksPg' =
          IF ok
          THEN [LoadTasks(tasksPg) EXCEPT !.creating = tasksPg.creating - 1,
                                         !.stored = tasksPg.stored + 1,
                                         !.showModal = FALSE,
                                         !.toast = "Task created successfully",
                                         !.gesture = "created"]
          ELSE [tasksPg EXCEPT !.creating = tasksPg.creating - 1,
                               !.toast = "Failed to create task",
                               !.gesture = "created"]
    /\ UNCHANGED <<authVars, table, audit, usersPg, clientsPg, perms>>

\* the close button, the cancel button or the backdrop
CloseModal ==
    /\ tasksPg.showModal
    /\ tasksPg' = [tasksPg EXCEPT !.showModal = FALSE, !.toast = "", !.gesture = "close"]
    /\ UNCHANGED <<authVars, table, audit, usersPg, clientsPg, perms>>

InitTasks ==
    /\ \E t \in Tokens, u \in Roles : SignedIn(t, u)
    /\ PagesLoaded

NextTasks ==
    \/ TasksMount
    \/ TasksTick
    \/ \E ok \in BOOLEAN : LoadTasksSettled(ok)
    \/ HandleCreateTask
    \/ \E field \in RequiredFields, value \in Inputs : EditField(field, value)
    \/ SubmitTask
    \/ \E ok \in BOOLEAN : CreateTaskSettled(ok)
    \/ CloseModal

SpecTasks == InitTasks /\ [][NextTasks]_vars

\* ------------------------------------------------------------- Clients page
\* what Clients renders: the access-denied state or the page
ClientsRender(u) == IF ~CanManageClients(u) THEN "denied" ELSE "page"

\* the arguments of getClients: searchTerm || undefined, statusFilter || undefined
ClientsQuery(pg) ==
    [search |-> IF pg.searchTerm = "" THEN Undefined ELSE pg.searchTerm,
     status |-> IF pg.statusFilter = "" THEN Undefined ELSE pg.statusFilter]

\* loadClients is called: loading is set and one more getClients request is
\* sent, with the filters of the render that made the function
LoadClients(pg, query, by) ==
    [pg EXCEPT !.loading = TRUE, !.fetches = pg.fetches + 1,
               !.pending = pg.pending \cup {[id |-> pg.fetches + 1, query |-> query, by |-> by]}]

\* faulty variant of the effect's cleanup: the interval is left running
CleanupKeeps(intervals) == intervals

\* the effect's cleanup: clearInterval(interval)
Cleanup(intervals) == {}

\* Clients useEffect: the cleanup of the previous run, loadClients, a new interval
ClientsEffect(pg) ==
    LET n == pg.effects + 1
        started == [pg EXCEPT !.effects = n,
                              !.intervals = Cleanup(pg.intervals)
                                   \cup {[id |-> n, query |-> ClientsQuery(pg)]}]
    IN  LoadClients(started, ClientsQuery(pg), 0)

\* the Clients page is opened from the sidebar
ClientsMount ==
    /\ ~clientsPg.mounted /\ WithAuthRender(user, loading) = "page"
    /\ clientsPg' = [ClientsEffect(ClientsMounted(TRUE)) EXCEPT !.gesture = "mount"]
    /\ UNCHANGED <<authVars, table, audit, usersPg, tasksPg, perms>>

\* the search box, rendered by the page only
ClientsSetSearchTerm(value) ==
    /\ clientsPg.mounted /\ ClientsRender(user) = "page"
    /\ clientsPg.searchTerm # value /\ clientsPg.fetches < MaxClientLoads
    /\ clientsPg' = [ClientsEffect([clientsPg EXCEPT !.searchTerm = value])
                        EXCEPT !.toast = "", !.gesture = "filter"]
    /\ UNCHANGED <<authVars, table, audit, usersPg, tasksPg, perms>>

\* the status select, rendered by the page only
ClientsSetStatusFilter(value) ==
    /\ clientsPg.mounted /\ ClientsRender(user) = "page"
    /\ clientsPg.statusFilter # value /\ clientsPg.fetches < MaxClientLoads
    /\ clientsPg' = [ClientsEffect([clientsPg EXCEPT !.statusFilter = value])
                        EXCEPT !.toast = "", !.gesture = "filter"]
    /\ UNCHANGED <<authVars, table, audit, usersPg, tasksPg, perms>>

\* a running interval fires: setInterval(loadClients, 30000)
ClientsTick(i) ==
    /\ clientsPg.mounted /\ i \in clientsPg.intervals
    /\ clientsPg.fetches < MaxClientLoads
    /\ clientsPg' = [LoadClients(clientsPg, i.query, i.id)
                        EXCEPT !.toast = "", !.gesture = "tick"]
    /\ UNCHANGED <<authVars, table, audit, usersPg, tasksPg, perms>>

\* the Refresh button, rendered by the page only
ClientsRefresh ==
    /\ clientsPg.mounted /\ ClientsRender(user) = "page"
    /\ clientsPg.fetches < MaxClientLoads
    /\ clientsPg' = [LoadClients(clientsPg, ClientsQuery(clientsPg), 0)
                        EXCEPT !.toast = "", !.gesture = "refresh"]
    /\ UNCHANGED <<authVars, table, audit, usersPg, tasksPg, perms>>

\* loadClients after getClients has settled (a 401 is DataResponse)
LoadClientsSettled(r, ok) ==
    /\ clientsPg.mounted /\ r \in clientsPg.pending
    /\ clientsPg' = [clientsPg EXCEPT
            !.pending = clientsPg.pending \ {r},
            !.shown = IF ok THEN r.id ELSE clientsPg.shown,
            !.loading = FALSE,
            !.toast = IF ok THEN "" ELSE "Failed to load clients",
            !.gesture = "loaded"]
    /\ UNCHANGED <<authVars, table, audit, usersPg, tasksPg, perms>>

\* Clients.handleEditClient: a row's edit button
HandleEditClient(value) ==
    /\ clientsPg.mounted /\ ClientsRender(user) = "page"
    /\ clientsPg.shown # 0 /\ ~clientsPg.showModal
    /\ clientsPg' = [clientsPg EXCEPT !.location = value, !.showModal = TRUE,
                                      !.toast = "", !.gesture = "open"]
    /\ UNCHANGED <<authVars, table, audit, usersPg, tasksPg, perms>>

\* the user edits the location field
ClientsEditField(value) ==
    /\ clientsPg.showModal /\ clientsPg.location # value
    /\ clientsPg' = [clientsPg EXCEPT !.location = value, !.toast = "", !.gesture = "edit"]
    /\ UNCHANGED <<authVars, table, audit, usersPg, tasksPg, perms>>

\* the form is submitted: no field is required; onSubmit sends updateClient
ClientsSubmit ==
    /\ clientsPg.showModal /\ clientsPg.updating < MaxCreates
    /\ clientsPg' = [clientsPg EXCEPT !.updating = clientsPg.updating + 1,
                                      !.toast = "", !.gesture = "submit"]
    /\ UNCHANGED <<authVars, table, audit, usersPg, tasksPg, perms>>

\* faulty variant: the list is loaded again whatever the outcome
RefetchAlways(ok) == TRUE

\* Clients.onSubmit: loadClients is reached only behind the awaited mutation
RefetchAfter(ok) == ok

\* Clients.onSubmit after updateClient has settled
UpdateClientSettled(ok) ==
    /\ clientsPg.mounted /\ clientsPg.updating > 0
    /\ RefetchAfter(ok) => clientsPg.fetches < MaxClientLoads
    /\ LET settled == [clientsPg EXCEPT
                !.updating = clientsPg.updating - 1,
                !.showModal = IF ok THEN FALSE ELSE clientsPg.showModal,
                !.toast = IF ok THEN "Client updated successfully"
                          ELSE "Failed to update client",
                !.gesture = "updated"]
       IN  clientsPg' = IF RefetchAfter(ok)
                        THEN LoadClients(settled, ClientsQuery(clientsPg), 0)
                        ELSE settled
    /\ UNCHANGED <<authVars, table, audit, usersPg, tasksPg, perms>>

\* the close button or the backdrop
ClientsCloseModal ==
    /\ clientsPg.showModal
    /\ clientsPg' = [clientsPg EXCEPT !.showModal = FALSE, !.toast = "", !.gesture = "close"]
    /\ UNCHANGED <<authVars, table, audit, usersPg, tasksPg, perms>>

\* another page is opened: Clients unmounts and the effect's cleanup runs
ClientsUnmount ==
    /\ clientsPg.mounted
    /\ clientsPg' = [ClientsMounted(FALSE) EXCEPT !.intervals = Cleanup(clientsPg.intervals)]
    /\ UNCHANGED <<authVars, table, audit, usersPg, tasksPg, perms>>

InitClients ==
    /\ \E t \in Tokens, u \in Roles : SignedIn(t, u)
    /\ PagesLoaded

NextClients ==
    \/ ClientsMount
    \/ \E value \in Inputs : ClientsSetSearchTerm(value)
    \/ \E value \in StatusFilters : ClientsSetStatusFilter(value)
    \/ \E i \in clientsPg.intervals : ClientsTick(i)
    \/ ClientsRefresh
    \/ \E r \in clientsPg.pending, ok \in BOOLEAN : LoadClientsSettled(r, ok)
    \/ \E value \in Inputs : HandleEditClient(value)
    \/ \E value \in Inputs : ClientsEditField(value)
    \/ ClientsSubmit
    \/ \E ok \in BOOLEAN : UpdateClientSettled(ok)
    \/ ClientsCloseModal
    \/ ClientsUnmount

SpecClients == InitClients /\ [][NextClients]_vars

\* ------------------------------------------------------------ role matrix
\* README, Role-Based Permissions: the roles each feature is documented for
ReadmeMatrix ==
    [UserManagement   |-> {"admin"},
     ClientMonitoring |-> {"admin", "technician", "auditor"},
     TaskExecution    |-> {"admin", "technician"},
     AuditLogs        |-> {"admin", "technician", "auditor"},
     SecurityCenter   |-> {"admin", "auditor"},
     DataExport       |-> {"admin", "auditor"}]

\* what Tasks renders: the access-denied state or the page
TasksRender(u) == IF ~CanExecuteTasks(u) THEN "denied" ELSE "page"

\* what Security renders: the access-denied state or the page
SecurityRender(u) == IF ~CanViewAuditLogs(u) THEN "denied" ELSE "page"

\* the gate the UI puts before each feature
UiGates(u) ==
    [UserManagement   |-> UsersRender(u) = "page",
     ClientMonitoring |-> ClientsRender(u) = "page",
     TaskExecution    |-> TasksRender(u) = "page",
     AuditLogs        |-> CanViewAuditLogs(u),
     SecurityCenter   |-> SecurityRender(u) = "page",
     DataExport       |-> CanExportData(u)]

\* ------------------------------------------------------------ usePermissions
\* the state the startup check leaves when no token is stored
SignedOut ==
    /\ token = NoToken /\ cookie = NoToken /\ user = NoUser
    /\ loading = FALSE /\ isAuthenticated = FALSE /\ route = "login"
    /\ mounted = TRUE /\ inflight = {} /\ issued = 0
    /\ hrefs = 0 /\ navPending = FALSE
    /\ toasts = <<>>
    /\ last = Event("checkAuth", NoResponse, FALSE)

\* the functions usePermissions returns, called for the context's user
UsePermissions(u, role, roles) ==
    [asked |-> TRUE, role |-> role, roles |-> roles,
     hasRole |-> HasRole(u, role), hasAnyRole |-> HasAnyRole(u, roles),
     canManageUsers |-> CanManageUsers(u), canManageClients |-> CanManageClients(u),
     canExecuteTasks |-> CanExecuteTasks(u), canViewAuditLogs |-> CanViewAuditLogs(u),
     canExportData |-> CanExportData(u)]

\* a component calls the functions of usePermissions
AskPermissions(role, roles) ==
    /\ perms' = UsePermissions(user, role, roles)
    /\ UNCHANGED <<authVars, table, audit, usersPg, tasksPg, clientsPg>>

\* nobody is signed in, or a user is, whose role the backend chose
InitPerms ==
    /\ \/ SignedOut
       \/ \E t \in Tokens, u \in Roles \cup OtherRoles : SignedIn(t, u)
    /\ PagesLoaded

NextPerms ==
    \E role \in Roles \cup OtherRoles, roles \in SUBSET Roles : AskPermissions(role, roles)

SpecPerms == InitPerms /\ [][NextPerms]_vars

\* ------------------------------------------------------------------ claims
\* C1: in every reachable state the context's isAuthenticated is true exactly
\* when the session store holds a token and the context holds a CurrentUser.
C1_AuthIffTokenAndUser ==
    isAuthenticated <=> (HasToken(token) /\ user # NoUser)

\* C2: once a 401 response has been processed, the token and the CurrentUser
\* are both absent.
C2_Unauthorized401ClearsBoth ==
    last.status = "401" => (~HasToken(token) /\ ~HasToken(cookie) /\ user = NoUser)

\* C3: the 401 responses of one session, however many calls were in flight,
\* clear the session and cause the navigation to the login screen exactly once.
C3_NavigatesToLoginOnce ==
    /\ (last.status = "401" => (~HasToken(token) /\ hrefs >= 1))
    /\ hrefs <= 1


\* C4: a request leaves with Authorization: Bearer <token>, the token the
\* session store holds when it is sent, exactly when a token is held; with no
\* token it leaves without an Authorization header.
C4_RequestCarriesCurrentToken ==
    [][\A r \in inflight' \ inflight :
          /\ (token # NoToken => r.auth = [scheme |-> "Bearer", cred |-> token])
          /\ (token = NoToken => r.auth = [scheme |-> "none", cred |-> NoToken])]_vars

\* a request sent without a header is in flight next to one sent with a token
C4_Witness ==
    \E r1, r2 \in inflight : r1.auth.scheme = "Bearer" /\ r2.auth.scheme = "none"

\* C5: after a successful login the returned token is in memory and in the
\* cookie, CurrentUser is the returned user, isAuthenticated is true and the
\* router has been sent to the dashboard.
C5_LoginSuccess ==
    (last.op = "login" /\ last.status = "ok") =>
        /\ token = last.tok /\ cookie = last.tok /\ HasToken(token)
        /\ user = last.usr /\ user \in Roles
        /\ isAuthenticated
        /\ route = "dashboard"

C5_Witness == last.op = "login" /\ last.status = "ok" /\ last.tok = MaxTok

C7_LogoutAlwaysClears ==
    last.op = "logout" =>
        /\ ~HasToken(token) /\ ~HasToken(cookie)
        /\ user = NoUser
        /\ ~isAuthenticated
        /\ route = "login"
        /\ ~last.thrown

C7_Witness == last.op = "logout" /\ last.status = "err"

\* C8: in a run of logins and logouts isAuthenticated is true from the
\* completion of a successful login until the following logout completes, and
\* false before the login and after the logout.
C8_AuthenticatedBetweenLoginAndLogout ==
    isAuthenticated <=>
        ((last.op = "login" /\ last.status = "ok") \/ last.op = "startLogout")

\* a second successful login, after a logout
C8_Witness == last.op = "login" /\ last.status = "ok" /\ issued >= 3 /\ isAuthenticated

\* C9: on startup a valid token and a fetched user give authenticated; no
\* token, or any failure of the validation or of the user fetch, leaves no
\* session token and unauthenticated.
C9_StartupCheck ==
    /\ (last.op = "me" /\ last.status = "ok" /\ HasToken(token)) =>
           (user = last.usr /\ isAuthenticated /\ ~loading)
    /\ (last.op = "checkAuth" /\ ~Pending("validate")) =>
           (~HasToken(token) /\ user = NoUser /\ ~isAuthenticated /\ ~loading)
    /\ (last.op \in {"validate", "me"} /\ last.status \notin {"ok", "none"}) =>
           (~HasToken(token) /\ ~HasToken(cookie) /\ user = NoUser /\ ~isAuthenticated)

\* C10: a failed refresh, whatever the failure, leaves no session token and no
\* user; a refresh without a token changes nothing.
C10_RefreshFailureClearsSession ==
    /\ (last.op = "refresh" /\ last.status # "ok") =>
           (~HasToken(token) /\ ~HasToken(cookie) /\ user = NoUser)
    /\ last.op = "refreshSkipped" => ~HasToken(token)

\* what the protected-page wrapper shows for the state the provider holds
ProtectedView == WithAuthRender(user, loading)

\* C11: the unknown (loading) state is entered only by a page load; no login,
\* logout or refresh puts the context back into it.
C11_UnknownOnlyAtStartup ==
    [][(~loading /\ loading') => last'.op = "load"]_vars

\* C12: on a protected page the wrapper shows the spinner while the state is
\* unknown, shows the wrapped page only when the check is over and
\* isAuthenticated is true, and has left for the login screen once the check is
\* over and isAuthenticated is false.
C12_ProtectedContentOnlyWhenAuthenticated ==
    /\ (route = "dashboard" /\ loading) => ProtectedView = "loading"
    /\ (route = "dashboard" /\ ProtectedView = "page") => (~loading /\ isAuthenticated)
    /\ (~loading /\ ~isAuthenticated) => route = "login"

\* C13: for the role of the CurrentUser the five permission predicates are those
\* of the table: users for admin; clients and tasks for admin and technician;
\* audit logs for admin, technician and auditor; export for admin and auditor.
C13_PermissionTable ==
    user \in Roles =>
        /\ CanManageUsers(user) <=> user = "admin"
        /\ CanManageClients(user) <=> user \in {"admin", "technician"}
        /\ CanExecuteTasks(user) <=> user \in {"admin", "technician"}
        /\ CanViewAuditLogs(user) <=> user \in {"admin", "technician", "auditor"}
        /\ CanExportData(user) <=> user \in {"admin", "auditor"}

\* C14: a call that fails with something else than a 401 leaves a notification
\* with the response's detail, else the error's message, else the generic
\* text, and still rejects to its caller.
C14_ErrorNotifiedAndPropagated ==
    last.status \in {"err", "net"} =>
        /\ last.rejected
        /\ Len(toasts) >= 1
        /\ toasts[1] = [type |-> "error",
                        text |-> IF last.detail # "" THEN last.detail
                                 ELSE IF last.msg # "" THEN last.msg
                                 ELSE "An error occurred"]

\* the generic message: a failure without a response and without a message
C14_Witness ==
    /\ last.status = "net" /\ last.msg = "" /\ last.rejected
    /\ toasts[1].text = "An error occurred"

ErrorToasts == { i \in 1..Len(toasts) : toasts[i].type = "error" }

\* C15: a failed backend call produces exactly one error notification, the
\* gateway's.
C15_OneNotificationPerFailure ==
    last.status \notin {"ok", "none"} => Cardinality(ErrorToasts) = 1

\* C16: after a clear, also a repeated one or one without a token held, the
\* token is absent from memory and cookie; after save(t) both hold t.
C16_ClearIdempotentSaveStores ==
    /\ (last.status = "401" \/ last.op = "logout") =>
           (token = NoToken /\ cookie = NoToken)
    /\ (last.op = "login" /\ last.status = "ok") =>
           (token = last.tok /\ cookie = last.tok)

\* the token is cleared twice in one task (interceptor, then logout's finally)
\* after an earlier 401 had already cleared it
C16_Witness ==
    /\ last.op = "logout" /\ last.status = "401"
    /\ hrefs >= 2

SortableKeys == { col.key : col \in { x \in Columns : x.sortable } }

Ascending(s, col) == \A i \in 1..(Len(s) - 1) : s[i][col] <= s[i + 1][col]
Descending(s, col) == \A i \in 1..(Len(s) - 1) : s[i][col] >= s[i + 1][col]

\* C17: the table is unsorted at first; the first click on a sortable column
\* sorts it ascending; each further click on that column flips the direction;
\* a sorted table never becomes unsorted again; the rows shown are in the
\* order the sort state names.
C17_SortToggle ==
    /\ [][table'.clicked \in SortableKeys =>
             /\ table'.sortColumn = table'.clicked
             /\ table'.sortDirection =
                    IF table.sortColumn # table'.clicked THEN "asc"
                    ELSE IF table.sortDirection = "asc" THEN "desc" ELSE "asc"]_vars
    /\ [][table.sortColumn # NoColumn => table'.sortColumn # NoColumn]_vars
    /\ [](table.clicked = NoColumn =>
             (table.sortColumn = NoColumn /\ SortedData(table) = table.data))
    /\ [](table.sortColumn # NoColumn =>
             IF table.sortDirection = "asc"
             THEN Ascending(SortedData(table), table.sortColumn)
             ELSE Descending(SortedData(table), table.sortColumn))

\* a column sorted descending, with rows that the sort had to reorder
C17_Witness ==
    /\ table.sortColumn = "a" /\ table.sortDirection = "desc"
    /\ SortedData(table) # table.data

\* C18: the query of a CSV export holds key=value for every filter of the
\* page whose value is not empty, holds no filter that is empty or not set,
\* and holds no other parameter such as page or per_page.
C18_ExportQueryIsActiveFilters ==
    audit.exported =>
        /\ \A key \in FilterKeys :
                (audit.filters[key] \notin {Undefined, ""})
                    <=> (<<key, audit.filters[key]>> \in audit.query)
        /\ \A param \in audit.query :
                param[1] \in FilterKeys /\ param[2] = audit.filters[param[1]]

\* an export with one filter set, one emptied again and the others never set,
\* after the list was loaded with page and per_page
C18_Witness ==
    /\ audit.exported
    /\ audit.query = {<<"severity", "x">>}
    /\ audit.filters["severity"] = "x" /\ audit.filters["search"] = ""
    /\ <<"page", "1">> \in audit.list

\* C19: while a signed-in auditor or technician has the Users page open, the
\* page shows the access-denied state, and no user-list request is issued,
\* whatever the page does.
C19_NonAdminNoUserFetch ==
    /\ []((usersPg.mounted /\ user \in {"auditor", "technician"}) =>
            /\ UsersRender(user) = "denied"
            /\ usersPg.fetches = 0 /\ usersPg.pending = 0)
    /\ [][(user \in {"auditor", "technician"}) =>
            usersPg'.fetches = usersPg.fetches]_vars

\* an auditor has opened the Users page and was told that access is denied
C19_Witness ==
    /\ user = "auditor" /\ isAuthenticated /\ usersPg.mounted
    /\ usersPg.toast = "Access denied: Admin privileges required"

\* C20: a submit of the task form while its command field is empty sends no
\* createTask request, leaves the modal open and the task list as it was, and
\* reports the field.
C20_EmptyCommandRejected ==
    [][(tasksPg'.gesture = "submit" /\ tasksPg.form["command"] = "") =>
          /\ tasksPg'.creates = tasksPg.creates
          /\ tasksPg'.creating = tasksPg.creating
          /\ tasksPg'.showModal
          /\ tasksPg'.tasks = tasksPg.tasks
          /\ tasksPg'.loads = tasksPg.loads
          /\ "command" \in tasksPg'.errors]_vars

\* the form was submitted with every field filled but the command, on a page
\* that has created and listed a task before
C20_Witness ==
    /\ tasksPg.gesture = "submit" /\ tasksPg.showModal
    /\ tasksPg.form["command"] = "" /\ tasksPg.errors = {"command"}
    /\ tasksPg.tasks > 0 /\ tasksPg.creates = tasksPg.tasks

C22_ReadmeRoleMatrix ==
    user \in Roles =>
        \A feature \in DOMAIN ReadmeMatrix :
            UiGates(user)[feature] <=> (user \in ReadmeMatrix[feature])

\* C23: while a list request of the page is outstanding the page is in its
\* loading state; loading is false only when no request is outstanding.
C23_LoadingWhileOutstanding ==
    clientsPg.mounted => (clientsPg.pending # {} => clientsPg.loading)

\* C24: a 401 answer to a request that was sent with another token than the
\* one now held, or with none, leaves the token now held in place.
C24_Late401KeepsNewerToken ==
    [][\A r \in inflight \ inflight' :
          (last'.status = "401" /\ HasToken(token) /\ r.auth # Bearer(token))
              => (token' = token /\ cookie' = cookie)]_vars

\* C25: the list shown is never replaced by the answer to a request that was
\* sent before the request whose answer is shown; so when no request is
\* outstanding and the newest request was answered, its answer is shown.
C25_LatestRequestWins ==
    [][clientsPg'.mounted => clientsPg'.shown >= clientsPg.shown]_vars

\* C26: while a gated page shows the access-denied state it has sent no
\* request and has no interval running.
C26_DeniedPageIsSilent ==
    (clientsPg.mounted /\ ClientsRender(user) = "denied") =>
        (clientsPg.fetches = 0 /\ clientsPg.pending = {} /\ clientsPg.intervals = {})

\* C27: a mounted page has at most one interval, the one its latest effect run
\* started; an unmounted page has none; every request an interval sends comes
\* from that interval and carries the filters now set.
C27_OneActiveInterval ==
    /\ [](Cardinality(clientsPg.intervals) <= 1)
    /\ [](\A i \in clientsPg.intervals :
             i.id = clientsPg.effects /\ i.query = ClientsQuery(clientsPg))
    /\ [](~clientsPg.mounted => clientsPg.intervals = {})
    /\ [][clientsPg'.gesture = "tick" =>
             \A r \in clientsPg'.pending \ clientsPg.pending :
                 r.by = clientsPg.effects /\ r.query = ClientsQuery(clientsPg)]_vars

\* the interval of the second effect run has fired after the filters changed
C27_Witness ==
    /\ clientsPg.gesture = "tick" /\ clientsPg.effects >= 2
    /\ clientsPg.searchTerm = "x"
    /\ \E r \in clientsPg.pending : r.by = clientsPg.effects

\* C28: whatever the order of page loads, logins, logouts and 401 answers, the
\* token in memory is the value of the access_token cookie: both absent or
\* both the same token.
C28_MemoryEqualsCookie == token = cookie

\* a login that follows at least two other requests of this page load has
\* stored its token
C28_Witness ==
    /\ last.op = "login" /\ last.status = "ok" /\ issued >= 3
    /\ HasToken(token) /\ cookie = token /\ user # NoUser

\* C29: for no user, and for a user whose role is none of admin, technician
\* and auditor, hasRole is false for each of the three roles and the five
\* permission predicates are false.
C29_NoRoleNoPermission ==
    (perms.asked /\ user \notin Roles) =>
        /\ perms.role \in Roles => ~perms.hasRole
        /\ ~perms.hasAnyRole
        /\ ~perms.canManageUsers /\ ~perms.canManageClients /\ ~perms.canExecuteTasks
        /\ ~perms.canViewAuditLogs /\ ~perms.canExportData

\* the functions were called for a user whose role differs from admin in case only
C29_Witness ==
    /\ perms.asked /\ user = "Admin" /\ perms.role = "admin" /\ perms.roles = Roles

\* C30: when every request is answered, the unknown state ends: loading becomes
\* false, and the context then is either authenticated or unauthenticated.
C30_StartupCheckTerminates ==
    loading ~> (~loading /\ WithAuthRender(user, loading) \in {"page", "nothing"})

\* the startup check has ended with the user the backend named
C30_Witness ==
    last.op = "me" /\ last.status = "ok" /\ ~loading /\ user # NoUser /\ HasToken(token)

=============================================================================
